---- MODULE Spec2Model ----
(***************************************************************************)
(* SmartStickController (src/app/(tabs)/index.tsx): the screen component   *)
(* that scans for BLE peripherals, connects to one, writes feature-toggle  *)
(* commands to it and folds telemetry notifications into a rolling window. *)
(* The file holds two revisions of the component: lines 1-207 (revision 1) *)
(* and lines 208-423 (revision 2).  The variable rev selects the revision. *)
(* The React state of the component, the requests in flight at the BLE     *)
(* transport and the transport's own link state are the model's state.     *)
(* Every handler runs to its first await as one step; each completion of   *)
(* an awaited transport call is a step of its own.                         *)
(***************************************************************************)
EXTENDS Integers, Sequences, FiniteSets, TLC

\* ----------------------------------------------------------------- bounds
\* discovery events delivered per scan
MaxEvents == 3
\* connectToDevice invocations in flight at once
MaxCalls == 2
\* write requests handed to the transport
MaxWrites == 2
\* telemetry notifications delivered
MaxNotifs == 3

\* ------------------------------------------------------------ value sets
Revisions == {1, 2}
\* peripheral ids the transport may report
Ids == {"AA:BB", "CC:DD"}
\* `name?: string`: an absent name is the JS value undefined
NoName == "<undefined>"
Names == {NoName, "", "Stick1", "Stick2"}
\* `string | null`
NULL == "<null>"
\* no alert() / console output raised by a step
None == "<none>"

SERVICE_UUID == "1234abcd-0000-1000-8000-00805f9b34fb"
CHARACTERISTIC_UUID == "abcd1234-0000-1000-8000-00805f9b34fb"

\* ------------------------------------------------------------------ state
VARIABLES
  rev,                \* which revision of the component is running
  mounted,            \* the component is on screen (the effect's cleanup has not run)
  listeners,          \* event names with a listener registered at the emitter
  isScanning,         \* useState(false)
  devices,            \* useState<BluetoothDevice[]>([])
  connectedDeviceId,  \* useState<string | null>(null)
  isRasEnabled,       \* useState(false)
  isHapticEnabled,    \* useState(false)
  isLaserEnabled,     \* useState(false)
  gaitData,           \* useState<number[]>([0,...,0])   (revision 2)
  scanReq,            \* transport: "idle" | "pending" (scan promise) | "active"
  calls,              \* connectToDevice invocations: slot -> [id, pc]
  linked,             \* transport: peripherals connected at the GATT level
  subscribed,         \* transport: peripherals notifying the telemetry characteristic
  writes,             \* BleManager.write requests, in the order issued
  pendingWrites,      \* write promises not yet settled
  alertShown,         \* alert() raised by the last step, or None
  logged,             \* console.error raised by the last step, or None
  discovered,         \* history: discovery events handled since the list was cleared
  received,           \* history: notification payloads handled so far
  lastOk,             \* history: id of the last BleManager.connect that resolved
  fired               \* history: commands of the switch events fired while connected

vars == <<rev, mounted, listeners, isScanning, devices, connectedDeviceId, isRasEnabled,
          isHapticEnabled, isLaserEnabled, gaitData, scanReq, calls, linked,
          subscribed, writes, pendingWrites, alertShown, logged, discovered,
          received, lastOk, fired>>

scanVars == <<isScanning, devices, scanReq, discovered>>
linkVars == <<connectedDeviceId, calls, linked, subscribed, lastOk>>
toggleVars == <<isRasEnabled, isHapticEnabled, isLaserEnabled, fired>>
writeVars == <<writes, pendingWrites>>
gaitVars == <<gaitData, received>>

\* ---------------------------------------------------------------- helpers
\* JS truthiness of an optional string: undefined and "" are falsy
Truthy(s) == s # NoName /\ s # ""

\* prevDevices.find(d => d.id === id) is truthy
Find(prev, id) == \E i \in 1..Len(prev) : prev[i].id = id

IdleCall == [id |-> NULL, pc |-> "idle"]

\* the listeners the effect registers with bleManagerEmitter.addListener
Registered(r) ==
  IF r = 1
    THEN {"BleManagerDiscoverPeripheral", "BleManagerStopScan"}
    ELSE {"BleManagerDiscoverPeripheral", "BleManagerStopScan",
          "BleManagerDidUpdateValueForCharacteristic"}

\* a cleanup that forgets updateListener.remove()
RemovedButUpdate(r) == {"BleManagerDiscoverPeripheral", "BleManagerStopScan"}

\* the listeners the effect's cleanup removes
Removed(r) ==
  IF r = 1
    THEN {"BleManagerDiscoverPeripheral", "BleManagerStopScan"}
    ELSE {"BleManagerDiscoverPeripheral", "BleManagerStopScan",
          "BleManagerDidUpdateValueForCharacteristic"}

\* the window the component starts with
InitialGaitData == <<0, 0, 0, 0, 0, 0, 0, 0, 0, 0>>

Init ==
  /\ rev \in Revisions
  /\ mounted = TRUE
  /\ listeners = Registered(rev)
  /\ isScanning = FALSE
  /\ devices = <<>>
  /\ connectedDeviceId = NULL
  /\ isRasEnabled = FALSE
  /\ isHapticEnabled = FALSE
  /\ isLaserEnabled = FALSE
  /\ gaitData = InitialGaitData
  /\ scanReq = "idle"
  /\ calls = [s \in 1..MaxCalls |-> IdleCall]
  /\ linked = {}
  /\ subscribed = {}
  /\ writes = <<>>
  /\ pendingWrites = 0
  /\ alertShown = None
  /\ logged = None
  /\ discovered = <<>>
  /\ received = <<>>
  /\ lastOk = NULL
  /\ fired = <<>>

\* ------------------------------------------------------- scan / discovery
\* an updater that appends without looking for the id
AddDeviceNoDedup(prev, device) == Append(prev, device)

\* setDevices updater of the discovery listener
AddDevice(prev, device) ==
  IF Find(prev, device.id) THEN prev ELSE Append(prev, device)

\* if (device.name)
HasName(device) == Truthy(device.name)

\* 'BleManagerDiscoverPeripheral' handler
discoverListener(device) ==
  /\ devices' = IF HasName(device) THEN AddDevice(devices, device) ELSE devices
  /\ discovered' = Append(discovered, device)

\* the transport emits a discovery event while a scan is requested or running
Discover ==
  /\ scanReq # "idle"
  /\ Len(discovered) < MaxEvents
  /\ \E id \in Ids, name \in Names :
       IF "BleManagerDiscoverPeripheral" \in listeners
         THEN discoverListener([id |-> id, name |-> name])
         ELSE UNCHANGED <<devices, discovered>>
  /\ alertShown' = None
  /\ logged' = None
  /\ UNCHANGED <<rev, mounted, listeners, isScanning, scanReq, linkVars, toggleVars,
                 writeVars, gaitVars>>

\* a stop handler that leaves the flag as it is
stopListenerKeepsFlag == UNCHANGED isScanning

\* 'BleManagerStopScan' handler
stopListener == isScanning' = FALSE

\* the scan window elapsed: the transport stops scanning and emits the event
StopScan ==
  /\ scanReq = "active"
  /\ scanReq' = "idle"
  /\ IF "BleManagerStopScan" \in listeners
       THEN stopListener
       ELSE UNCHANGED isScanning
  /\ alertShown' = None
  /\ logged' = None
  /\ UNCHANGED <<rev, mounted, listeners, devices, discovered, linkVars, toggleVars,
                 writeVars, gaitVars>>

\* a startScan without the isScanning test
startScanUnguarded ==
  /\ mounted
  /\ devices' = <<>>
  /\ isScanning' = TRUE
  /\ scanReq' = "pending"
  /\ discovered' = <<>>
  /\ alertShown' = None
  /\ logged' = None
  /\ UNCHANGED <<rev, mounted, listeners, linkVars, toggleVars, writeVars, gaitVars>>

\* the scan button's onPress
startScan ==
  /\ mounted
  /\ IF ~isScanning
       THEN /\ devices' = <<>>
            /\ isScanning' = TRUE
            /\ scanReq' = "pending"
            /\ discovered' = <<>>
       ELSE UNCHANGED scanVars
  /\ alertShown' = None
  /\ logged' = None
  /\ UNCHANGED <<rev, mounted, listeners, linkVars, toggleVars, writeVars, gaitVars>>

\* BleManager.scan(...) resolved: the scan runs
ScanResolve ==
  /\ scanReq = "pending"
  /\ scanReq' = "active"
  /\ alertShown' = None
  /\ logged' = None
  /\ UNCHANGED <<rev, mounted, listeners, isScanning, devices, discovered, linkVars,
                 toggleVars, writeVars, gaitVars>>

\* BleManager.scan(...) rejected: the .catch handler
ScanReject ==
  /\ scanReq = "pending"
  /\ scanReq' = "idle"
  /\ isScanning' = IF mounted THEN FALSE ELSE isScanning
  /\ alertShown' = None
  /\ logged' = "scan error"
  /\ UNCHANGED <<rev, mounted, listeners, devices, discovered, linkVars, toggleVars,
                 writeVars, gaitVars>>

\* the effect's cleanup: the listeners are removed
Unmount ==
  /\ mounted
  /\ mounted' = FALSE
  /\ listeners' = listeners \ Removed(rev)
  /\ alertShown' = None
  /\ logged' = None
  /\ UNCHANGED <<rev, scanVars, linkVars, toggleVars, writeVars, gaitVars>>

ScanNext ==
  \/ startScan
  \/ ScanResolve
  \/ ScanReject
  \/ Discover
  \/ StopScan
  \/ Unmount

SpecScan == Init /\ [][ScanNext]_vars

\* The transport settles every scan request, and a scan that started runs for
\* its fixed window (BleManager.scan(..., 5, ...)) and then stops.
SpecScanFair ==
  /\ SpecScan
  /\ WF_vars(ScanResolve \/ ScanReject)
  /\ WF_vars(StopScan)

\* ------------------------------------------------------------- connection
FreeSlots == {s \in 1..MaxCalls : calls[s].pc = "idle"}

\* setConnectedDeviceId(id); a state setter of a dismissed screen does nothing
setConnectedDeviceId(id) ==
  connectedDeviceId' = IF mounted THEN id ELSE connectedDeviceId

\* connectToDevice up to `await BleManager.connect(id)`, both revisions
connectToDevice(s, id) ==
  /\ calls' = [calls EXCEPT ![s] = [id |-> id, pc |-> "connect"]]
  /\ alertShown' = None
  /\ logged' = None
  /\ UNCHANGED <<connectedDeviceId, linked, subscribed, lastOk>>

\* a device box's onPress: connectToDevice(item.id) for an item of the list
TapDevice ==
  /\ mounted
  /\ FreeSlots # {}
  /\ \E i \in 1..Len(devices) :
       LET s == CHOOSE f \in FreeSlots : \A g \in FreeSlots : f <= g
       IN  connectToDevice(s, devices[i].id)
  /\ UNCHANGED <<rev, mounted, listeners, scanVars, toggleVars, writeVars, gaitVars>>

\* revision 1 after BleManager.connect resolved: set the id, alert
connected_r1(s) ==
  /\ setConnectedDeviceId(calls[s].id)
  /\ alertShown' = "Connected to Smart Stick!"
  /\ calls' = [calls EXCEPT ![s] = IdleCall]

\* revision 2 after BleManager.connect resolved: set the id, call retrieveServices
connected_r2(s) ==
  /\ setConnectedDeviceId(calls[s].id)
  /\ alertShown' = None
  /\ calls' = [calls EXCEPT ![s].pc = "retrieveServices"]

\* BleManager.connect(id) resolved: the peripheral is connected at the transport
ConnectResolve ==
  /\ \E s \in 1..MaxCalls :
       /\ calls[s].pc = "connect"
       /\ linked' = linked \cup {calls[s].id}
       /\ lastOk' = calls[s].id
       /\ IF rev = 1 THEN connected_r1(s) ELSE connected_r2(s)
  /\ logged' = None
  /\ UNCHANGED <<rev, mounted, listeners, subscribed, scanVars, toggleVars, writeVars, gaitVars>>

\* a catch block that also clears the recorded id
connectCatchClearsId(s) ==
  /\ calls' = [calls EXCEPT ![s] = IdleCall]
  /\ logged' = "Connection error"
  /\ alertShown' = "Failed to connect"
  /\ connectedDeviceId' = NULL

\* the catch block of connectToDevice, both revisions
connectCatch(s) ==
  /\ calls' = [calls EXCEPT ![s] = IdleCall]
  /\ logged' = "Connection error"
  /\ alertShown' = "Failed to connect"
  /\ UNCHANGED connectedDeviceId

\* BleManager.connect(id) rejected
ConnectReject ==
  /\ \E s \in 1..MaxCalls :
       /\ calls[s].pc = "connect"
       /\ connectCatch(s)
  /\ UNCHANGED <<rev, mounted, listeners, linked, subscribed, lastOk, scanVars, toggleVars,
                 writeVars, gaitVars>>

\* revision 2: BleManager.retrieveServices(id) resolved, startNotification is called
RetrieveResolve ==
  /\ \E s \in 1..MaxCalls :
       /\ calls[s].pc = "retrieveServices"
       /\ calls' = [calls EXCEPT ![s].pc = "startNotification"]
  /\ alertShown' = None
  /\ logged' = None
  /\ UNCHANGED <<rev, mounted, listeners, connectedDeviceId, linked, subscribed, lastOk,
                 scanVars, toggleVars, writeVars, gaitVars>>

\* revision 2: BleManager.startNotification(...) resolved: the peripheral notifies
StartNotificationResolve ==
  /\ \E s \in 1..MaxCalls :
       /\ calls[s].pc = "startNotification"
       /\ calls' = [calls EXCEPT ![s] = IdleCall]
       /\ subscribed' = (subscribed \cup {calls[s].id}) \cap linked
  /\ alertShown' = "Connected & Listening to Smart Stick!"
  /\ logged' = None
  /\ UNCHANGED <<rev, mounted, listeners, connectedDeviceId, linked, lastOk, scanVars,
                 toggleVars, writeVars, gaitVars>>

\* revision 2: retrieveServices or startNotification rejected after the connect
SubscribeReject ==
  /\ \E s \in 1..MaxCalls :
       /\ calls[s].pc \in {"retrieveServices", "startNotification"}
       /\ connectCatch(s)
  /\ UNCHANGED <<rev, mounted, listeners, linked, subscribed, lastOk, scanVars, toggleVars,
                 writeVars, gaitVars>>

\* the transport loses the link to a peripheral; the component registers no
\* listener for it, so no state of the component changes
Disconnect ==
  /\ \E id \in linked :
       /\ linked' = linked \ {id}
       /\ subscribed' = subscribed \ {id}
  /\ alertShown' = None
  /\ logged' = None
  /\ UNCHANGED <<rev, mounted, listeners, connectedDeviceId, calls, lastOk, scanVars,
                 toggleVars, writeVars, gaitVars>>

\* ---------------------------------------------------------------- sending
\* A JS string is modelled as the sequence of its characters, which is what
\* commandString.split('') yields.
Chars == {"R", "A", "S", "H", "P", "L", ":", "0", "1"}

\* char.charCodeAt(0)
charCodeAtOffByOne(c) ==
  CASE c = "R" -> 82 [] c = "A" -> 65 [] c = "S" -> 83 [] c = "H" -> 72
    [] c = "P" -> 80 [] c = "L" -> 76 [] c = ":" -> 58 [] c = "0" -> 49
    [] c = "1" -> 50

charCodeAt(c) ==
  CASE c = "R" -> 82 [] c = "A" -> 65 [] c = "S" -> 83 [] c = "H" -> 72
    [] c = "P" -> 80 [] c = "L" -> 76 [] c = ":" -> 58 [] c = "0" -> 48
    [] c = "1" -> 49

\* commandString.split('').map((char) => char.charCodeAt(0))
byteData(commandString) ==
  [i \in 1..Len(commandString) |-> charCodeAt(commandString[i])]

\* BleManager.write(connectedDeviceId, SERVICE_UUID, CHARACTERISTIC_UUID, byteData)
WriteRequest(commandString) ==
  [id |-> connectedDeviceId, service |-> SERVICE_UUID,
   characteristic |-> CHARACTERISTIC_UUID, bytes |-> byteData(commandString)]

\* the request is put in front of the earlier ones
issueWritePrepend(commandString) ==
  /\ writes' = <<WriteRequest(commandString)>> \o writes
  /\ pendingWrites' = pendingWrites + 1

\* the write is issued twice
issueWriteTwice(commandString) ==
  /\ writes' = writes \o <<WriteRequest(commandString), WriteRequest(commandString)>>
  /\ pendingWrites' = pendingWrites + 2

\* the call of BleManager.write: the request is handed to the transport
issueWrite(commandString) ==
  /\ writes' = Append(writes, WriteRequest(commandString))
  /\ pendingWrites' = pendingWrites + 1

\* the guard is missing: the write is issued whatever connectedDeviceId is
sendCommandToStick_unguarded(commandString) ==
  /\ issueWrite(commandString)
  /\ alertShown' = None

\* revision 1, up to `await BleManager.write(...)`
sendCommandToStick_r1(commandString) ==
  IF connectedDeviceId = NULL
    THEN /\ alertShown' = "Please scan and tap to connect to the stick first!"
         /\ UNCHANGED writeVars
    ELSE /\ issueWrite(commandString)
         /\ alertShown' = None

\* revision 2, up to `await BleManager.write(...)`
sendCommandToStick_r2(commandString) ==
  IF connectedDeviceId = NULL
    THEN /\ alertShown' = None
         /\ UNCHANGED writeVars
    ELSE /\ issueWrite(commandString)
         /\ alertShown' = None

sendCommandToStick(commandString) ==
  IF rev = 1 THEN sendCommandToStick_r1(commandString)
             ELSE sendCommandToStick_r2(commandString)

\* the command literals of the three switches
RasCommand(v) == IF v THEN <<"R", "A", "S", ":", "1">> ELSE <<"R", "A", "S", ":", "0">>
HapticCommand(v) == IF v THEN <<"H", "A", "P", ":", "1">> ELSE <<"H", "A", "P", ":", "0">>
LaserCommand(v) == IF v THEN <<"L", "A", "S", ":", "1">> ELSE <<"L", "A", "S", ":", "0">>

\* a switch event fired with the stick connected is recorded with its command
Fire(commandString) ==
  fired' = IF connectedDeviceId = NULL THEN fired ELSE Append(fired, commandString)

\* RAS switch onValueChange
onRasChange(v) ==
  /\ isRasEnabled' = v
  /\ sendCommandToStick(RasCommand(v))
  /\ Fire(RasCommand(v))
  /\ UNCHANGED <<isHapticEnabled, isLaserEnabled>>

\* Haptic switch onValueChange
onHapticChange(v) ==
  /\ isHapticEnabled' = v
  /\ sendCommandToStick(HapticCommand(v))
  /\ Fire(HapticCommand(v))
  /\ UNCHANGED <<isRasEnabled, isLaserEnabled>>

\* Laser switch onValueChange
onLaserChange(v) ==
  /\ isLaserEnabled' = v
  /\ sendCommandToStick(LaserCommand(v))
  /\ Fire(LaserCommand(v))
  /\ UNCHANGED <<isRasEnabled, isHapticEnabled>>

ToggleFrame ==
  /\ mounted
  /\ Len(writes) < MaxWrites
  /\ logged' = None
  /\ UNCHANGED <<rev, mounted, listeners, scanVars, linkVars, gaitVars>>

ToggleRas == ToggleFrame /\ \E v \in BOOLEAN : onRasChange(v)
ToggleHaptic == ToggleFrame /\ \E v \in BOOLEAN : onHapticChange(v)
ToggleLaser == ToggleFrame /\ \E v \in BOOLEAN : onLaserChange(v)

\* a BleManager.write promise resolved: nothing but a console.log (revision 1)
WriteResolve ==
  /\ pendingWrites > 0
  /\ pendingWrites' = pendingWrites - 1
  /\ alertShown' = None
  /\ logged' = None
  /\ UNCHANGED <<rev, mounted, listeners, writes, scanVars, linkVars, toggleVars, gaitVars>>

\* a catch block that sends the command again
WriteRejectRetries ==
  /\ pendingWrites > 0
  /\ writes' = Append(writes, writes[Len(writes)])
  /\ alertShown' = None
  /\ logged' = "Failed to send command"
  /\ UNCHANGED <<rev, mounted, listeners, pendingWrites, scanVars, linkVars, toggleVars, gaitVars>>

\* a BleManager.write promise rejected: the catch block logs the error
WriteReject ==
  /\ pendingWrites > 0
  /\ pendingWrites' = pendingWrites - 1
  /\ alertShown' = None
  /\ logged' = "Failed to send command"
  /\ UNCHANGED <<rev, mounted, listeners, writes, scanVars, linkVars, toggleVars, gaitVars>>

\* the state after a scan that surfaced both sticks and has stopped
InitScanned ==
  /\ rev \in Revisions
  /\ mounted = TRUE
  /\ listeners = Registered(rev)
  /\ isScanning = FALSE
  /\ devices = <<[id |-> "AA:BB", name |-> "Stick1"], [id |-> "CC:DD", name |-> "Stick2"]>>
  /\ discovered = devices
  /\ connectedDeviceId = NULL
  /\ isRasEnabled = FALSE
  /\ isHapticEnabled = FALSE
  /\ isLaserEnabled = FALSE
  /\ gaitData = InitialGaitData
  /\ scanReq = "idle"
  /\ calls = [s \in 1..MaxCalls |-> IdleCall]
  /\ linked = {}
  /\ subscribed = {}
  /\ writes = <<>>
  /\ pendingWrites = 0
  /\ alertShown = None
  /\ logged = None
  /\ received = <<>>
  /\ lastOk = NULL
  /\ fired = <<>>

\* a device box is tapped while no connectToDevice invocation is in flight
TapDeviceIdle ==
  /\ \A s \in 1..MaxCalls : calls[s].pc = "idle"
  /\ TapDevice

\* connection only: device taps may overlap, the link may drop, the screen may close
LinkNext ==
  \/ TapDevice
  \/ ConnectResolve
  \/ ConnectReject
  \/ RetrieveResolve
  \/ StartNotificationResolve
  \/ SubscribeReject
  \/ Disconnect
  \/ Unmount

SpecLink == InitScanned /\ [][LinkNext]_vars

\* connection and sending: one connect attempt at a time, toggles at any time
SendNext ==
  \/ TapDeviceIdle
  \/ ConnectResolve
  \/ ConnectReject
  \/ RetrieveResolve
  \/ StartNotificationResolve
  \/ SubscribeReject
  \/ Disconnect
  \/ ToggleRas
  \/ ToggleHaptic
  \/ ToggleLaser
  \/ WriteResolve
  \/ WriteReject

SpecSend == InitScanned /\ [][SendNext]_vars

\* -------------------------------------------------------------- telemetry
\* data.value of a characteristic-value-changed event: an array of bytes
Payloads == {<<>>, <<5>>, <<9>>, <<255>>, <<5, 9>>}

\* the JS value undefined, which indexing past the end of an array yields
Undefined == -1

\* data.value[0]
FirstValue(value) == IF Len(value) = 0 THEN Undefined ELSE value[1]

\* the window grows: the oldest sample is kept
slideKeepOldest(currentData, newValue) == Append(currentData, newValue)

\* [...currentData.slice(1), newValue]
slide(currentData, newValue) == Append(Tail(currentData), newValue)

\* 'BleManagerDidUpdateValueForCharacteristic' handler (revision 2)
updateListener(value) ==
  /\ gaitData' = slide(gaitData, FirstValue(value))
  /\ received' = Append(received, value)

\* a subscribed peripheral notifies: the transport emits a
\* characteristic-value-changed event
Notify ==
  /\ subscribed # {}
  /\ Len(received) < MaxNotifs
  /\ \E value \in Payloads :
       IF "BleManagerDidUpdateValueForCharacteristic" \in listeners
         THEN updateListener(value)
         ELSE UNCHANGED gaitVars
  /\ alertShown' = None
  /\ logged' = None
  /\ UNCHANGED <<rev, mounted, listeners, scanVars, linkVars, toggleVars, writeVars>>

GaitNext ==
  \/ Notify
  \/ Unmount

\* revision 2 right after connectToDevice("AA:BB") ran to its end: the stick is
\* connected and notifying, no notification has arrived yet
InitSubscribed ==
  /\ rev = 2
  /\ mounted = TRUE
  /\ listeners = Registered(rev)
  /\ isScanning = FALSE
  /\ devices = <<[id |-> "AA:BB", name |-> "Stick1"], [id |-> "CC:DD", name |-> "Stick2"]>>
  /\ discovered = devices
  /\ connectedDeviceId = "AA:BB"
  /\ isRasEnabled = FALSE
  /\ isHapticEnabled = FALSE
  /\ isLaserEnabled = FALSE
  /\ gaitData = InitialGaitData
  /\ scanReq = "idle"
  /\ calls = [s \in 1..MaxCalls |-> IdleCall]
  /\ linked = {"AA:BB"}
  /\ subscribed = {"AA:BB"}
  /\ writes = <<>>
  /\ pendingWrites = 0
  /\ alertShown = "Connected & Listening to Smart Stick!"
  /\ logged = None
  /\ received = <<>>
  /\ lastOk = "AA:BB"
  /\ fired = <<>>

SpecGait == InitSubscribed /\ [][GaitNext]_vars

\* the same, with any window of samples on display
InitWindow ==
  /\ rev = 2
  /\ mounted = TRUE
  /\ listeners = Registered(rev)
  /\ isScanning = FALSE
  /\ devices = <<[id |-> "AA:BB", name |-> "Stick1"], [id |-> "CC:DD", name |-> "Stick2"]>>
  /\ discovered = devices
  /\ connectedDeviceId = "AA:BB"
  /\ isRasEnabled = FALSE
  /\ isHapticEnabled = FALSE
  /\ isLaserEnabled = FALSE
  /\ gaitData \in [1..Len(InitialGaitData) -> {0, 255}]
  /\ scanReq = "idle"
  /\ calls = [s \in 1..MaxCalls |-> IdleCall]
  /\ linked = {"AA:BB"}
  /\ subscribed = {"AA:BB"}
  /\ writes = <<>>
  /\ pendingWrites = 0
  /\ alertShown = "Connected & Listening to Smart Stick!"
  /\ logged = None
  /\ received = <<>>
  /\ lastOk = "AA:BB"
  /\ fired = <<>>

SpecWindow == InitWindow /\ [][GaitNext]_vars

\* ------------------------------------------------- teardown of the screen
\* a scan is running with nothing listed yet; revision 2 is connected to
\* "AA:BB" and subscribed, revision 1 is not connected
InitTeardown ==
  /\ rev \in Revisions
  /\ mounted = TRUE
  /\ listeners = Registered(rev)
  /\ isScanning = TRUE
  /\ devices = <<>>
  /\ discovered = <<>>
  /\ connectedDeviceId = IF rev = 2 THEN "AA:BB" ELSE NULL
  /\ isRasEnabled = FALSE
  /\ isHapticEnabled = FALSE
  /\ isLaserEnabled = FALSE
  /\ gaitData = InitialGaitData
  /\ scanReq = "active"
  /\ calls = [s \in 1..MaxCalls |-> IdleCall]
  /\ linked = IF rev = 2 THEN {"AA:BB"} ELSE {}
  /\ subscribed = linked
  /\ writes = <<>>
  /\ pendingWrites = 0
  /\ alertShown = None
  /\ logged = None
  /\ received = <<>>
  /\ lastOk = connectedDeviceId
  /\ fired = <<>>

\* the three events and the effect's cleanup
TeardownNext ==
  \/ Discover
  \/ StopScan
  \/ Notify
  \/ Unmount

SpecTeardown == InitTeardown /\ [][TeardownNext]_vars

\* ------------------------------------------------------- the whole program
Next ==
  \/ startScan
  \/ ScanResolve
  \/ ScanReject
  \/ Discover
  \/ StopScan
  \/ TapDevice
  \/ ConnectResolve
  \/ ConnectReject
  \/ RetrieveResolve
  \/ StartNotificationResolve
  \/ SubscribeReject
  \/ Disconnect
  \/ ToggleRas
  \/ ToggleHaptic
  \/ ToggleLaser
  \/ WriteResolve
  \/ WriteReject
  \/ Notify
  \/ Unmount

Spec == Init /\ [][Next]_vars

\* ------------------------------------------- the start states are reachable
\* InitScanned is a state SpecScan reaches from Init (startScan, the scan
\* resolves, two discovery events, the scan stops)
ScannedReached ==
  /\ ~isScanning
  /\ scanReq = "idle"
  /\ devices = <<[id |-> "AA:BB", name |-> "Stick1"], [id |-> "CC:DD", name |-> "Stick2"]>>
  /\ discovered = devices

\* InitSubscribed is a state SpecLink reaches from InitScanned (tap "AA:BB",
\* connect, retrieveServices and startNotification resolve)
SubscribedReached ==
  /\ rev = 2
  /\ mounted
  /\ connectedDeviceId = "AA:BB"
  /\ lastOk = "AA:BB"
  /\ fired = <<>>
  /\ linked = {"AA:BB"}
  /\ subscribed = {"AA:BB"}
  /\ \A s \in 1..MaxCalls : calls[s] = IdleCall
  /\ alertShown = "Connected & Listening to Smart Stick!"
  /\ logged = None

\* ================================================================= claims

\* positions of `discovered` holding the first named event of their peripheral id
FirstNamed ==
  {k \in 1..Len(discovered) :
     /\ discovered[k].name \notin {NoName, ""}
     /\ \A j \in 1..(k - 1) :
          discovered[j].id = discovered[k].id => discovered[j].name \in {NoName, ""}}

\* C1: whatever discovery events were delivered since the scan started, the
\* device list holds each peripheral id at most once and only peripherals with
\* a non-empty name: it is exactly the first named event of each id, in
\* arrival order (so "AA:BB"/"Stick1" then "CC:DD"/unnamed gives [AA:BB]).
C1_DiscoveredUniqueNamed ==
  /\ \A i, j \in 1..Len(devices) : devices[i].id = devices[j].id => i = j
  /\ \A i \in 1..Len(devices) : devices[i].name \notin {NoName, ""}
  /\ Len(devices) = Cardinality(FirstNamed)
  /\ \E f \in [1..Len(devices) -> FirstNamed] :
       /\ \A i, j \in 1..Len(devices) : i < j => f[i] < f[j]
       /\ \A i \in 1..Len(devices) : devices[i] = discovered[f[i]]

C1_Witness ==
  /\ discovered = <<[id |-> "AA:BB", name |-> "Stick1"],
                    [id |-> "CC:DD", name |-> NoName],
                    [id |-> "AA:BB", name |-> "Stick2"]>>
  /\ devices = <<[id |-> "AA:BB", name |-> "Stick1"]>>

\* a step in which one of the three switches fired
ToggleStep == ToggleRas \/ ToggleHaptic \/ ToggleLaser

\* C2: a toggle fired while connectedDeviceId is null issues no transport
\* write and reports the not-connected condition to the user, in both revisions.
C2_NotConnectedReported ==
  [][(ToggleStep /\ connectedDeviceId = NULL)
       => (writes' = writes /\ alertShown' # None)]_vars

\* String.fromCharCode of each byte: the text a byte sequence decodes to
Decode(bytes) ==
  [i \in 1..Len(bytes) |->
     CASE bytes[i] = 82 -> "R" [] bytes[i] = 65 -> "A" [] bytes[i] = 83 -> "S"
       [] bytes[i] = 72 -> "H" [] bytes[i] = 80 -> "P" [] bytes[i] = 76 -> "L"
       [] bytes[i] = 58 -> ":" [] bytes[i] = 48 -> "0" [] bytes[i] = 49 -> "1"
       [] OTHER -> "?"]

\* the step appended exactly one write, to the connected peripheral and the
\* fixed UUID pair, whose bytes decode to the five characters given
OneWriteOf(c1, c2, c3, c4, c5) ==
  /\ Len(writes') = Len(writes) + 1
  /\ SubSeq(writes', 1, Len(writes)) = writes
  /\ writes'[Len(writes')].id = connectedDeviceId
  /\ writes'[Len(writes')].service = "1234abcd-0000-1000-8000-00805f9b34fb"
  /\ writes'[Len(writes')].characteristic = "abcd1234-0000-1000-8000-00805f9b34fb"
  /\ Decode(writes'[Len(writes')].bytes) = <<c1, c2, c3, c4, c5>>

\* C3: each toggle fired while a peripheral id is recorded as connected hands
\* exactly one write to the transport, addressed to that id and the fixed
\* service/characteristic pair, whose bytes decode to the command of the
\* feature and value toggled.
C3_ExactlyOneWrite ==
  [][connectedDeviceId # NULL =>
       /\ ToggleRas => OneWriteOf("R", "A", "S", ":", IF isRasEnabled' THEN "1" ELSE "0")
       /\ ToggleHaptic => OneWriteOf("H", "A", "P", ":", IF isHapticEnabled' THEN "1" ELSE "0")
       /\ ToggleLaser => OneWriteOf("L", "A", "S", ":", IF isLaserEnabled' THEN "1" ELSE "0")]_vars

C3_Witness ==
  /\ connectedDeviceId = "AA:BB"
  /\ isRasEnabled
  /\ Len(writes) = 1
  /\ writes[1].id = "AA:BB"
  /\ writes[1].characteristic = "abcd1234-0000-1000-8000-00805f9b34fb"
  /\ Decode(writes[1].bytes) = <<"R", "A", "S", ":", "1">>

\* the byte sequences of the six command literals
SixCommands ==
  {<<82, 65, 83, 58, 49>>, <<82, 65, 83, 58, 48>>,
   <<72, 65, 80, 58, 49>>, <<72, 65, 80, 58, 48>>,
   <<76, 65, 83, 58, 49>>, <<76, 65, 83, 58, 48>>}

\* the bytes of the last write of the step
WrittenBytes == writes'[Len(writes')].bytes

\* C4: every byte sequence ever written is the one-byte-per-character encoding
\* of one of "RAS:1", "RAS:0", "HAP:1", "HAP:0", "LAS:1", "LAS:0" (length 5,
\* every byte a code point in 0..127), and a toggle writes the literal of its
\* own feature and value.
C4_SixLiteralsOnly ==
  [][/\ \A i \in 1..Len(writes') :
          /\ writes'[i].bytes \in SixCommands
          /\ Len(writes'[i].bytes) = 5
          /\ \A k \in 1..5 : writes'[i].bytes[k] \in 0..127
     /\ (ToggleRas /\ connectedDeviceId # NULL) =>
          WrittenBytes = <<82, 65, 83, 58, IF isRasEnabled' THEN 49 ELSE 48>>
     /\ (ToggleHaptic /\ connectedDeviceId # NULL) =>
          WrittenBytes = <<72, 65, 80, 58, IF isHapticEnabled' THEN 49 ELSE 48>>
     /\ (ToggleLaser /\ connectedDeviceId # NULL) =>
          WrittenBytes = <<76, 65, 83, 58, IF isLaserEnabled' THEN 49 ELSE 48>>]_vars

C4_Witness ==
  /\ Len(writes) = 2
  /\ writes[1].bytes = <<72, 65, 80, 58, 49>>
  /\ writes[2].bytes = <<76, 65, 83, 58, 48>>
  /\ isHapticEnabled
  /\ ~isLaserEnabled

\* a step in which the update listener handled a notification carrying `value`
Handled(value) == received' = Append(received, value)

\* C5: for every 10-element series and every notification carrying a sample v
\* (the first byte of its payload), the series after the notification has
\* length 10, its elements 0..8 are the previous elements 1..9 and its element
\* 9 is v.
C5_WindowSlides ==
  [][\A value \in Payloads :
       (Handled(value) /\ Len(value) > 0 /\ Len(gaitData) = 10) =>
         /\ Len(gaitData') = 10
         /\ \A i \in 1..9 : gaitData'[i] = gaitData[i + 1]
         /\ gaitData'[10] = value[1]]_vars

C5_Witness ==
  /\ received = <<<<5, 9>>>>
  /\ gaitData = <<255, 0, 255, 255, 0, 0, 0, 255, 0, 5>>

\* the first byte of each payload that has one, in arrival order
RECURSIVE FirstBytes(_)
FirstBytes(log) ==
  IF log = <<>> THEN <<>>
  ELSE (IF Head(log) = <<>> THEN <<>> ELSE <<Head(log)[1]>>) \o FirstBytes(Tail(log))

LastTen(seq) == SubSeq(seq, Len(seq) - 9, Len(seq))

\* C6: in every reachable state the gait series is the last 10 elements of ten
\* zeros followed by the first byte of each notification handled so far, in
\* arrival order (length always 10, all zeros before any notification, later
\* bytes of a payload ignored, nothing reordered or deduplicated).
C6_SeriesIsLastTenFirstBytes ==
  gaitData = LastTen(<<0, 0, 0, 0, 0, 0, 0, 0, 0, 0>> \o FirstBytes(received))

\* C7: a notification with an empty payload is skipped: the series after it
\* equals the series before it, and every element stays a byte 0..255.
C7_EmptyPayloadSkipped ==
  [][Handled(<<>>) =>
       /\ gaitData' = gaitData
       /\ \A i \in 1..Len(gaitData') : gaitData'[i] \in 0..255]_vars

\* C8: when retrieveServices or startNotification fails after the connect
\* succeeded, the failure is shown and connectedDeviceId is not left set to the
\* peripheral of the failed attempt.
C8_SubscribeFailureNotHalfConnected ==
  [][\A s \in 1..MaxCalls :
       (/\ SubscribeReject
        /\ calls[s].pc \in {"retrieveServices", "startNotification"}
        /\ calls'[s].pc = "idle") =>
         (alertShown' # None /\ connectedDeviceId' # calls[s].id)]_vars

\* C9: after a connect attempt fails, connectedDeviceId is null, whatever it
\* was before the attempt.
C9_FailureClearsId ==
  [][(ConnectReject \/ SubscribeReject) => connectedDeviceId' = NULL]_vars

\* C10: connectedDeviceId is non-null only while that peripheral is connected
\* at the transport: a disconnect clears it.
C10_IdOnlyWhileLinked ==
  connectedDeviceId # NULL => connectedDeviceId \in linked

\* C11: at most one peripheral is connected at the transport at any time,
\* whatever devices are tapped and however the connect attempts overlap.
C11_AtMostOneLinked == Cardinality(linked) <= 1

\* C12: a toggle holds its new value when its write is handed to the
\* transport, and a rejected write is caught: it changes none of the three
\* toggles, connectedDeviceId, the device list or the scanning flag, and it
\* issues no further write (no rollback, no retry).
C12_FailedWriteLeavesState ==
  [][/\ WriteReject =>
          /\ UNCHANGED <<isRasEnabled, isHapticEnabled, isLaserEnabled>>
          /\ UNCHANGED <<connectedDeviceId, devices, isScanning>>
          /\ writes' = writes
     /\ (ToggleRas /\ writes' # writes) =>
          (isRasEnabled' <=> Decode(WrittenBytes)[5] = "1")
     /\ (ToggleHaptic /\ writes' # writes) =>
          (isHapticEnabled' <=> Decode(WrittenBytes)[5] = "1")
     /\ (ToggleLaser /\ writes' # writes) =>
          (isLaserEnabled' <=> Decode(WrittenBytes)[5] = "1")]_vars

C12_Witness ==
  /\ logged = "Failed to send command"
  /\ connectedDeviceId = "AA:BB"
  /\ isRasEnabled
  /\ Len(writes) = 1
  /\ Decode(writes[1].bytes) = <<"R", "A", "S", ":", "1">>
  /\ pendingWrites = 0

\* positions of the writes whose command carries the three-letter tag
WritesOf(tag) ==
  {i \in 1..Len(writes) : SubSeq(Decode(writes[i].bytes), 1, 3) = tag}

\* the enabled bit of the most recent command sent for the tag, FALSE if none
LastSent(tag) ==
  /\ WritesOf(tag) # {}
  /\ LET last == CHOOSE i \in WritesOf(tag) : \A j \in WritesOf(tag) : j <= i
     IN  Decode(writes[last].bytes)[5] = "1"

\* C13: in every reachable state each toggle equals the enabled bit of the most
\* recent command handed to the transport for its feature, and is false when
\* no command for the feature was sent.
C13_ToggleIsLastSent ==
  /\ isRasEnabled = LastSent(<<"R", "A", "S">>)
  /\ isHapticEnabled = LastSent(<<"H", "A", "P">>)
  /\ isLaserEnabled = LastSent(<<"L", "A", "S">>)

\* C14: scanning is bounded: while the screen is up, isScanning once true
\* becomes false again, given that the transport settles the scan request and
\* ends a started scan; both the stop event and a rejected scan request reset
\* the flag.
C14_ScanningEnds ==
  /\ (isScanning /\ mounted) ~> (~isScanning \/ ~mounted)
  /\ [][(mounted /\ (StopScan \/ ScanReject)) => ~isScanning']_vars

C14_Witness ==
  /\ mounted
  /\ ~isScanning
  /\ scanReq = "idle"
  /\ Len(discovered) = 2
  /\ Len(devices) = 1


\* C15: once the effect's cleanup has run, every listener registered at
\* startup is removed, and no scan or notification event changes the device
\* list, the scanning flag or the gait series
C15_NoHandlerAfterTeardown ==
  /\ [](~mounted => listeners = {})
  /\ [][~mounted => UNCHANGED <<devices, isScanning, gaitData>>]_vars

\* revision 2 torn down during a scan: one peripheral listed and one sample
\* shown before the cleanup, the scan's end arrived after it (the flag still
\* says scanning)
C15_Witness ==
  /\ rev = 2
  /\ ~mounted
  /\ listeners = {}
  /\ scanReq = "idle"
  /\ isScanning
  /\ Len(devices) = 1
  /\ Len(received) = 1
  /\ subscribed # {}


\* C16: every failed connect attempt and every failed scan request shows an
\* alert, and a failed write is logged and shows none
C16_FailuresSurfaceNotice ==
  [][/\ (ConnectReject \/ SubscribeReject \/ ScanReject) => alertShown' # None
     /\ WriteReject => (alertShown' = None /\ logged' # None)]_vars


\* the peripherals of the discovery events since the last accepted scan start
DiscoveredSet == {discovered[i] : i \in 1..Len(discovered)}

\* C17: startScan while isScanning is true changes neither the list nor the
\* scan request; while isScanning is false no request is outstanding, and
\* startScan clears the list, sets the flag and issues the one request; the
\* list holds only peripherals discovered since that start
C17_ScanStartGuarded ==
  /\ [](\A i \in 1..Len(devices) : devices[i] \in DiscoveredSet)
  /\ []((mounted /\ ~isScanning) => scanReq = "idle")
  /\ [][/\ (startScan /\ isScanning) => UNCHANGED <<devices, isScanning, scanReq>>
        /\ (startScan /\ ~isScanning) =>
             /\ devices' = <<>>
             /\ isScanning'
             /\ scanReq = "idle"
             /\ scanReq' = "pending"
        /\ (scanReq' = "pending" /\ scanReq # "pending") => (startScan /\ ~isScanning)]_vars

\* a scan is running with one peripheral listed out of two discovery events:
\* pressing the button here must change nothing
C17_Witness ==
  /\ mounted
  /\ isScanning
  /\ scanReq = "active"
  /\ Len(devices) = 1
  /\ Len(discovered) = 2


\* C18: the writes handed to the transport are the commands of the switch
\* events fired while connected, one each and in the order the events fired,
\* however many of the write promises are still unsettled
C18_WritesInToggleOrder ==
  /\ Len(writes) = Len(fired)
  /\ \A i \in 1..Len(writes) : Decode(writes[i].bytes) = fired[i]

\* two different switches fired one after the other, both writes in flight
C18_Witness ==
  /\ fired = <<LaserCommand(TRUE), RasCommand(TRUE)>>
  /\ Len(writes) = 2
  /\ pendingWrites = 2


\* C19: while the screen is up, connectedDeviceId is null or the id of the
\* last BleManager.connect call that resolved, whatever attempts overlap; it
\* changes only when a connect call resolves, and a failed attempt leaves it
\* as it was
C19_IdIsLastResolvedConnect ==
  /\ [](mounted => connectedDeviceId = lastOk)
  /\ [][/\ (ConnectReject \/ SubscribeReject) => UNCHANGED connectedDeviceId
        /\ connectedDeviceId' # connectedDeviceId =>
             /\ ConnectResolve
             /\ connectedDeviceId' = lastOk']_vars

\* "CC:DD" is connected, an attempt has just failed and another one is still
\* waiting for BleManager.connect
C19_Witness ==
  /\ mounted
  /\ connectedDeviceId = "CC:DD"
  /\ alertShown = "Failed to connect"
  /\ \E s \in 1..MaxCalls : calls[s].pc = "connect" /\ calls[s].id = "AA:BB"

====
